---------------------------- MODULE Spec2Model ----------------------------
(***************************************************************************)
(* A model of streamlit_app.py: the CDM dashboard script.  The script is   *)
(* one synchronous run over the loaded table: apply_filters, the KPIs,     *)
(* make_exploded_for_geo, the two charts and the detail table.  The        *)
(* initial state is the one after df = load_data(DATA_PATH).               *)
(*                                                                         *)
(* A Python str is a sequence of one-character strings, so that strip,     *)
(* lower, split, len, isalpha and the pattern search are computed and not  *)
(* assumed.  A DataFrame cell is NaN, a str or a number.                   *)
(***************************************************************************)
EXTENDS Integers, Sequences, FiniteSets, TLC

VARIABLES
    df,          \* the loaded table (line 141)
    sel,         \* what the eight sidebar multiselects return (lines 91-98)
    q,           \* what the "Search in Title" text input returns (line 118)
    df_f,        \* the filtered table (line 142)
    kpi,         \* total_selected, requested_transition, approved_yes, reductions_sum
    ex,          \* the exploded table (line 165)
    topn,        \* the "Top N" slider (line 170)
    counts,      \* bar chart data (lines 171-177)
    geo_counts,  \* choropleth data (line 191)
    shown,       \* the detail table (line 218)
    tok,         \* the argument of one token_to_iso3 call
    iso3,        \* the value that call returns
    pc,          \* the statement the script is at
    err          \* the exception that ended the script, or "none"

vars == <<df, sel, q, df_f, kpi, ex, topn, counts, geo_counts, shown, tok, iso3, pc, err>>

----------------------------------------------------------------------------
(* Python str operations.                                                  *)

UpperLetters ==
    <<"A","B","C","D","E","F","G","H","I","J","K","L","M","N","O","P","Q","R",
      "S","T","U","V","W","X","Y","Z","O_CIRC">>

LowerLetters ==
    <<"a","b","c","d","e","f","g","h","i","j","k","l","m","n","o","p","q","r",
      "s","t","u","v","w","x","y","z","o_circ">>

Letters == {UpperLetters[i] : i \in DOMAIN UpperLetters} \cup {LowerLetters[i] : i \in DOMAIN LowerLetters}

Whitespace == {" "}

ToLower == [c \in {UpperLetters[i] : i \in DOMAIN UpperLetters} |->
               LowerLetters[CHOOSE i \in DOMAIN UpperLetters : UpperLetters[i] = c]]

ToUpper == [c \in {LowerLetters[i] : i \in DOMAIN LowerLetters} |->
               UpperLetters[CHOOSE i \in DOMAIN LowerLetters : LowerLetters[i] = c]]

lowerChar(c) == IF c \in DOMAIN ToLower THEN ToLower[c] ELSE c

upperChar(c) == IF c \in DOMAIN ToUpper THEN ToUpper[c] ELSE c

\* str.lower()
lower(s) == [i \in 1..Len(s) |-> lowerChar(s[i])]

\* str.upper()
upper(s) == [i \in 1..Len(s) |-> upperChar(s[i])]

\* str.isalpha(): non-empty and every character a letter
isalpha(s) == Len(s) > 0 /\ \A i \in 1..Len(s) : s[i] \in Letters

\* str.strip()
strip(s) ==
    LET keep == {i \in 1..Len(s) : s[i] \notin Whitespace}
    IN  IF keep = {} THEN << >>
        ELSE SubSeq(s, CHOOSE i \in keep : \A j \in keep : i <= j,
                       CHOOSE i \in keep : \A j \in keep : j <= i)

\* c in s, for a one-character c
hasChar(s, c) == \E i \in 1..Len(s) : s[i] = c

\* str.split(sep), for a one-character sep
RECURSIVE split(_, _)
split(s, sep) ==
    IF ~hasChar(s, sep) THEN <<s>>
    ELSE LET i == CHOOSE k \in 1..Len(s) : s[k] = sep /\ \A j \in 1..(k-1) : s[j] # sep
         IN  <<SubSeq(s, 1, i-1)>> \o split(SubSeq(s, i+1, Len(s)), sep)

\* str(n) for an int n
DigitChars == <<"0","1","2","3","4","5","6","7","8","9">>

RECURSIVE natStr(_)
natStr(n) == IF n < 10 THEN <<DigitChars[n+1]>> ELSE natStr(n \div 10) \o <<DigitChars[(n % 10) + 1]>>

intStr(n) == IF n < 0 THEN <<"-">> \o natStr(-n) ELSE natStr(n)

----------------------------------------------------------------------------
(* Cells.                                                                  *)

NaN == [t |-> "nan", s |-> << >>, n |-> 0]

Str(x) == [t |-> "str", s |-> x, n |-> 0]

Num(k) == [t |-> "num", s |-> << >>, n |-> k]

\* pd.isna(val)
isna(v) == v.t = "nan"

\* str(val), Series.astype(str) on an object column: NaN becomes the text
\* nan, which is why line 31 lists "nan" among the placeholders
pystr(v) == CASE v.t = "str" -> v.s
              [] v.t = "num" -> intStr(v.n)
              [] OTHER       -> <<"n","a","n">>

\* Python's None, as the value token_to_iso3 returns for an unresolved token
None == <<"None">>

----------------------------------------------------------------------------
(* pycountry.countries: the part of the ISO 3166-1 database the model      *)
(* carries.  A field a country does not have is the empty string.          *)

Country(a2, a3, num, name, official, common) ==
    [alpha_2 |-> a2, alpha_3 |-> a3, numeric |-> num, name |-> name,
     official_name |-> official, common_name |-> common]

countries ==
    { Country(<<"I","D">>, <<"I","D","N">>, <<"3","6","0">>, <<"I","n","d","o","n","e","s","i","a">>, <<"R","e","p","u","b","l","i","c"," ","o","f"," ","I","n","d","o","n","e","s","i","a">>, << >>),
      Country(<<"C","L">>, <<"C","H","L">>, <<"1","5","2">>, <<"C","h","i","l","e">>, <<"R","e","p","u","b","l","i","c"," ","o","f"," ","C","h","i","l","e">>, << >>),
      Country(<<"E","G">>, <<"E","G","Y">>, <<"8","1","8">>, <<"E","g","y","p","t">>, <<"A","r","a","b"," ","R","e","p","u","b","l","i","c"," ","o","f"," ","E","g","y","p","t">>, << >>),
      Country(<<"V","N">>, <<"V","N","M">>, <<"7","0","4">>, <<"V","i","e","t"," ","N","a","m">>, <<"S","o","c","i","a","l","i","s","t"," ","R","e","p","u","b","l","i","c"," ","o","f"," ","V","i","e","t"," ","N","a","m">>, <<"V","i","e","t","n","a","m">>),
      Country(<<"I","R">>, <<"I","R","N">>, <<"3","6","4">>, <<"I","r","a","n",","," ","I","s","l","a","m","i","c"," ","R","e","p","u","b","l","i","c"," ","o","f">>, <<"I","s","l","a","m","i","c"," ","R","e","p","u","b","l","i","c"," ","o","f"," ","I","r","a","n">>, << >>),
      Country(<<"K","R">>, <<"K","O","R">>, <<"4","1","0">>, <<"K","o","r","e","a",","," ","R","e","p","u","b","l","i","c"," ","o","f">>, << >>, <<"S","o","u","t","h"," ","K","o","r","e","a">>),
      Country(<<"L","A">>, <<"L","A","O">>, <<"4","1","8">>, <<"L","a","o"," ","P","e","o","p","l","e","'","s"," ","D","e","m","o","c","r","a","t","i","c"," ","R","e","p","u","b","l","i","c">>, << >>, << >>),
      Country(<<"C","D">>, <<"C","O","D">>, <<"1","8","0">>, <<"C","o","n","g","o",","," ","T","h","e"," ","D","e","m","o","c","r","a","t","i","c"," ","R","e","p","u","b","l","i","c"," ","o","f"," ","t","h","e">>, << >>, << >>),
      Country(<<"C","I">>, <<"C","I","V">>, <<"3","8","4">>, <<"C","o_circ","t","e"," ","d","'","I","v","o","i","r","e">>, <<"R","e","p","u","b","l","i","c"," ","o","f"," ","C","o_circ","t","e"," ","d","'","I","v","o","i","r","e">>, << >>) }

CountryFields(c) ==
    {c.alpha_2, c.alpha_3, c.numeric, c.name, c.official_name, c.common_name} \ {<< >>}

\* the database's indices: lower-cased key, alpha_3 of the country
index_alpha_2 == {<<lower(c.alpha_2), c.alpha_3>> : c \in countries}

index_alpha_3 == {<<lower(c.alpha_3), c.alpha_3>> : c \in countries}

index_all == UNION {{<<lower(f), c.alpha_3>> : f \in CountryFields(c)} : c \in countries}

\* the alpha_3 an index holds for a key, or None
find(index, key) ==
    LET hits == {e \in index : e[1] = lower(key)}
    IN  IF hits = {} THEN None ELSE (CHOOSE e \in hits : TRUE)[2]

\* c = pycountry.countries.get(alpha_2=code); c.alpha_3 if c else None
get_alpha_2(code) == find(index_alpha_2, code)

\* c = pycountry.countries.get(alpha_3=code); c.alpha_3 if c else None
get_alpha_3(code) == find(index_alpha_3, code)

\* pycountry.countries.lookup(value).alpha_3: a case-insensitive exact match on
\* any field; None stands for the LookupError that line 49 catches
lookup(value) == find(index_all, value)

----------------------------------------------------------------------------
(* Helpers (lines 16-59).                                                  *)

SPECIAL_ISO3 ==
    << <<<<"R","e","p","u","b","l","i","c"," ","o","f"," ","K","o","r","e","a">>, <<"K","O","R">>>>,
       <<<<"K","o","r","e","a",","," ","R","e","p","u","b","l","i","c"," ","o","f">>, <<"K","O","R">>>>,
       <<<<"V","i","e","t"," ","N","a","m">>, <<"V","N","M">>>>,
       <<<<"I","r","a","n">>, <<"I","R","N">>>>,
       <<<<"I","r","a","n"," ","(","I","s","l","a","m","i","c"," ","R","e","p","u","b","l","i","c"," ","o","f",")">>, <<"I","R","N">>>>,
       <<<<"L","a","o"," ","P","D","R">>, <<"L","A","O">>>>,
       <<<<"D","e","m","o","c","r","a","t","i","c"," ","R","e","p","u","b","l","i","c"," ","o","f"," ","t","h","e"," ","C","o","n","g","o">>, <<"C","O","D">>>>,
       <<<<"C","o","n","g","o",","," ","T","h","e"," ","D","e","m","o","c","r","a","t","i","c"," ","R","e","p","u","b","l","i","c"," ","o","f"," ","t","h","e">>, <<"C","O","D">>>>,
       <<<<"C","o","t","e"," ","d","'","I","v","o","i","r","e">>, <<"C","I","V">>>>,
       <<<<"C","o_circ","t","e"," ","d","rsquo","I","v","o","i","r","e">>, <<"C","I","V">>>> >>

\* tok in SPECIAL_ISO3
inSpecial(t) == \E i \in DOMAIN SPECIAL_ISO3 : SPECIAL_ISO3[i][1] = t

\* SPECIAL_ISO3[tok]
special(t) == SPECIAL_ISO3[CHOOSE i \in DOMAIN SPECIAL_ISO3 : SPECIAL_ISO3[i][1] = t][2]

Placeholders == {<<"m","u","l","t","i","p","l","e">>, << >>, <<"n","a","n">>}

\* a token_to_iso3 without the alias table (lines 33-34 left out)
token_to_iso3_NoAlias(s) ==
    LET t == strip(s)
    IN  IF lower(t) \in Placeholders THEN None
        ELSE IF Len(t) = 2 /\ isalpha(t) THEN get_alpha_2(upper(t))
        ELSE IF Len(t) = 3 /\ isalpha(t) THEN get_alpha_3(upper(t))
        ELSE lookup(t)

\* token_to_iso3(tok), for a str tok
token_to_iso3(s) ==
    LET t == strip(s)
    IN  IF lower(t) \in Placeholders THEN None
        ELSE IF inSpecial(t) THEN special(t)
        ELSE IF Len(t) = 2 /\ isalpha(t) THEN get_alpha_2(upper(t))
        ELSE IF Len(t) = 3 /\ isalpha(t) THEN get_alpha_3(upper(t))
        ELSE lookup(t)

\* split_countries(val)
split_countries(val) ==
    IF isna(val) THEN << >>
    ELSE LET s == pystr(val)
         IN  IF hasChar(s, ";")
             THEN LET parts == split(s, ";")
                      toks  == [i \in DOMAIN parts |-> strip(parts[i])]
                  IN  SelectSeq(toks, LAMBDA t : t # << >> /\ lower(t) # <<"m","u","l","t","i","p","l","e">>)
             ELSE <<strip(s)>>


----------------------------------------------------------------------------
(* DataFrames.  A table has a set of columns and a sequence of rows; a row *)
(* carries its index label and one cell per column.                        *)

Table(cols, rows) == [cols |-> cols, rows |-> rows]

Row(idx, cells) == [idx |-> idx, c |-> cells]

EmptyTable == Table({}, << >>)

\* the functions f on cols with f[c] \in dom[c]
RECURSIVE Records(_, _)
Records(cols, dom) ==
    IF cols = {} THEN {<< >>}
    ELSE LET c == CHOOSE x \in cols : TRUE
         IN  {(c :> v) @@ f : v \in dom[c], f \in Records(cols \ {c}, dom)}

\* the table read_excel gives for a sequence of records: index 0..n-1
Sheet(cols, recs) == Table(cols, [i \in DOMAIN recs |-> Row(i - 1, recs[i])])

\* len(df)
len(t) == Len(t.rows)

----------------------------------------------------------------------------
(* apply_filters (lines 80-124).                                           *)

FilterCols ==
    <<"Region", "Sub-region", "Host country", "Type", "Type.1", "Transition Request",
      "Methodology after transition", "Approved by Host Party">>

FilterColSet == {FilterCols[i] : i \in DOMAIN FilterCols}

\* df[col].dropna().unique()
options(t, col) == {t.rows[i].c[col] : i \in DOMAIN t.rows} \ {NaN}

\* sorted(opts) raises TypeError when a str and a number are compared
sortable(opts) == \A a \in opts, b \in opts : a.t = b.t

\* what a multiselect returns: None (no such column) or the list the user picked
NoWidget == [none |-> TRUE, vals |-> {}]

Picked(vals) == [none |-> FALSE, vals |-> vals]

\* "if selected": None and the empty list are falsy
truthy(w) == ~w.none /\ w.vals # {}

\* multiselect(col, label): the values it can return
multiselect(t, col) ==
    IF col \notin t.cols THEN {NoWidget}
    ELSE {Picked(v) : v \in SUBSET options(t, col)}

\* the eight multiselect calls of lines 91-98 raise when a column's options do not sort
multiselectRaises(t) == \E col \in FilterColSet : col \in t.cols /\ ~sortable(options(t, col))

\* every combination of returns of the eight multiselects
RECURSIVE SelectionsOver(_, _)
SelectionsOver(t, cs) ==
    IF cs = {} THEN {<< >>}
    ELSE LET c == CHOOSE x \in cs : TRUE
         IN  {(c :> w) @@ f : w \in multiselect(t, c), f \in SelectionsOver(t, cs \ {c})}

Selections(t) == SelectionsOver(t, FilterColSet)

\* filt(col, selected), lines 102-105
filt(out, col, selected) ==
    IF truthy(selected) /\ col \in out.cols
    THEN Table(out.cols, SelectSeq(out.rows, LAMBDA r : r.c[col] \in selected.vals))
    ELSE out

\* the eight filt calls of lines 107-114, from the i-th on
RECURSIVE filtFrom(_, _, _)
filtFrom(out, s, i) ==
    IF i > Len(FilterCols) THEN out
    ELSE filtFrom(filt(out, FilterCols[i], s[FilterCols[i]]), s, i + 1)

\* a filter chain in which each filt selects from df instead of out
RECURSIVE filtFromDf(_, _, _, _)
filtFromDf(t, out, s, i) ==
    IF i > Len(FilterCols) THEN out
    ELSE filtFromDf(t, IF truthy(s[FilterCols[i]]) /\ FilterCols[i] \in t.cols
                       THEN filt(t, FilterCols[i], s[FilterCols[i]]) ELSE out, s, i + 1)

filtAll_FromDf(t, s) == filtFromDf(t, t, s, 1)

\* out after df.copy() and the eight filt calls
filtAll(t, s) == filtFrom(t, s, 1)

\* The pattern language of the text query: a letter matches itself, "." matches
\* any character, and an opening "(" or "[" that is never closed does not compile.
PatternOpeners == {"(", "["}

\* re.compile(q) raises re.error
patternRaises(pat) == \E i \in 1..Len(pat) : pat[i] \in PatternOpeners

\* re.search(q, text, re.IGNORECASE) finds a match
search(pat, text) ==
    \E off \in 0..(Len(text) - Len(pat)) :
        \A j \in 1..Len(pat) : pat[j] = "." \/ lowerChar(pat[j]) = lowerChar(text[off + j])

\* a text search that writes the astype(str) column back before selecting
textSearch_Coerce(out, pat) ==
    LET co == [i \in DOMAIN out.rows |->
                  Row(out.rows[i].idx, [out.rows[i].c EXCEPT !["Title"] = Str(pystr(@))])]
    IN  Table(out.cols, SelectSeq(co, LAMBDA r : search(pat, pystr(r.c["Title"]))))

\* out[out["Title"].astype(str).str.contains(q, case=False, na=False)], line 120
textSearch(out, pat) ==
    Table(out.cols, SelectSeq(out.rows, LAMBDA r : search(pat, pystr(r.c["Title"]))))

Result(e, out) == [err |-> e, out |-> out]

\* apply_filters(df) when the multiselects return s and the text input returns pat:
\* the exception it raises, or the table it returns
apply_filters(t, s, pat) ==
    IF multiselectRaises(t) THEN Result("TypeError", EmptyTable)
    ELSE LET out == filtAll(t, s)
         IN  IF "Title" \in out.cols /\ pat # << >>
             THEN IF patternRaises(pat) THEN Result("re.error", EmptyTable)
                  ELSE Result("none", textSearch(out, pat))
             ELSE Result("none", out)

----------------------------------------------------------------------------
(* The KPIs (lines 144-152).  Numbers are kept in hundredths, so that 12.5 *)
(* is 1250: the texts the model parses have at most two decimals.          *)

isDigit(c) == \E i \in DOMAIN DigitChars : DigitChars[i] = c

digitVal(c) == (CHOOSE i \in DOMAIN DigitChars : DigitChars[i] = c) - 1

RECURSIVE natVal(_)
natVal(s) == IF s = << >> THEN 0 ELSE natVal(SubSeq(s, 1, Len(s) - 1)) * 10 + digitVal(s[Len(s)])

\* the text is a decimal numeral: digits with at most one point, at least one digit
isNumeral(s) ==
    /\ \A i \in 1..Len(s) : isDigit(s[i]) \/ s[i] = "."
    /\ Cardinality({i \in 1..Len(s) : s[i] = "."}) <= 1
    /\ \E i \in 1..Len(s) : isDigit(s[i])

\* the value of a decimal numeral, in hundredths
numeralVal(s) ==
    LET d    == IF hasChar(s, ".") THEN CHOOSE i \in 1..Len(s) : s[i] = "." ELSE Len(s) + 1
        int  == SubSeq(s, 1, d - 1)
        frac == SubSeq(s, d + 1, Len(s))
    IN  natVal(int) * 100
        + (IF Len(frac) = 0 THEN 0
           ELSE IF Len(frac) = 1 THEN natVal(frac) * 10
           ELSE natVal(SubSeq(frac, 1, 2)))

\* pd.to_numeric(x, errors="coerce") of one cell: its value, or NaN
to_numeric(v) ==
    CASE v.t = "num" -> Num(v.n * 100)
      [] v.t = "str" /\ isNumeral(v.s) -> Num(numeralVal(v.s))
      [] OTHER -> NaN

\* .fillna(0)
fillna0(v) == IF isna(v) THEN 0 ELSE v.n

RECURSIVE sumFrom(_, _, _)
sumFrom(t, col, i) ==
    IF i > len(t) THEN 0 ELSE fillna0(to_numeric(t.rows[i].c[col])) + sumFrom(t, col, i + 1)

\* lines 149-152
column_sum(t, col) == IF col \in t.cols THEN sumFrom(t, col, 1) ELSE 0

\* a yes-count that compares without .str.lower()
count_yes_CaseSensitive(t, col) ==
    IF col \in t.cols
    THEN Cardinality({i \in DOMAIN t.rows : pystr(t.rows[i].c[col]) = <<"y","e","s">>})
    ELSE 0

\* (df_f[col].astype(str).str.lower() == "yes").sum() if col in df_f.columns else 0
count_yes(t, col) ==
    IF col \in t.cols
    THEN Cardinality({i \in DOMAIN t.rows : lower(pystr(t.rows[i].c[col])) = <<"y","e","s">>})
    ELSE 0

KPIs(t) ==
    [total_selected       |-> len(t),
     requested_transition |-> count_yes(t, "Transition Request"),
     approved_yes         |-> count_yes(t, "Approved by Host Party"),
     reductions_sum       |-> column_sum(t, "Reductions (ktCO2e/yr)")]

----------------------------------------------------------------------------
(* make_exploded_for_geo (lines 126-134).                                  *)

GeoCols == {"host_token", "country_clean", "iso3"}

\* ex.explode("host_token") of one row: one row per list element, and one
\* row with NaN for an empty list
explodeRow(r) ==
    LET toks == split_countries(r.c["Host country"])
    IN  IF toks = << >> THEN <<NaN>> ELSE [i \in DOMAIN toks |-> Str(toks[i])]

\* the row of ex for one host_token: lines 131 and 132
geoRow(r, ht) ==
    LET clean == strip(pystr(ht))
    IN  Row(r.idx, ("host_token" :> ht) @@ ("country_clean" :> Str(clean))
                   @@ ("iso3" :> Str(token_to_iso3(clean))) @@ r.c)

RECURSIVE explodeFrom(_, _)
explodeFrom(rows, i) ==
    IF i > Len(rows) THEN << >>
    ELSE LET hts == explodeRow(rows[i])
         IN  [k \in DOMAIN hts |-> geoRow(rows[i], hts[k])] \o explodeFrom(rows, i + 1)

\* an ex that keeps the rows whose iso3 is None (line 133 left out)
dropUnresolved_KeepAll(rows) == rows

\* ex[ex["iso3"].notna()], line 133
dropUnresolved(rows) == SelectSeq(rows, LAMBDA r : r.c["iso3"] # Str(None))

GeoResult(e, x, arg) == [err |-> e, ex |-> x, arg |-> arg]

\* a make_exploded_for_geo that adds its columns to df_filtered itself
\* (line 128 without .copy())
make_exploded_for_geo_NoCopy(t) ==
    IF "Host country" \notin t.cols THEN GeoResult("KeyError", EmptyTable, t)
    ELSE GeoResult("none",
                   Table(t.cols \cup GeoCols, dropUnresolved(explodeFrom(t.rows, 1))),
                   Table(t.cols \cup {"host_token"},
                         [i \in DOMAIN t.rows |->
                             Row(t.rows[i].idx,
                                 ("host_token" :> Str(<<"l","i","s","t">>)) @@ t.rows[i].c)]))

\* make_exploded_for_geo(df_filtered): the exception it raises or the table it
\* returns, and df_filtered as the call leaves it (ex is a copy: untouched)
make_exploded_for_geo(t) ==
    IF "Host country" \notin t.cols THEN GeoResult("KeyError", EmptyTable, t)
    ELSE GeoResult("none",
                   Table(t.cols \cup GeoCols, dropUnresolved(explodeFrom(t.rows, 1))),
                   t)

----------------------------------------------------------------------------
(* The charts and the detail table (lines 167-218).                        *)

\* ex.groupby(col).size()
groupby_size(t, col) ==
    [v \in {t.rows[i].c[col] : i \in DOMAIN t.rows} |->
        Cardinality({i \in DOMAIN t.rows : t.rows[i].c[col] = v})]

\* .sort_values("count", ascending=False).head(n): the groups it can keep.
\* The order among equal counts is not fixed, so neither is the choice.
head_sorted(g, n) ==
    {T \in SUBSET DOMAIN g :
        /\ Cardinality(T) = IF Cardinality(DOMAIN g) < n THEN Cardinality(DOMAIN g) ELSE n
        /\ \A a \in T, b \in (DOMAIN g) \ T : g[a] >= g[b]}

cols_prefer ==
    {"Region", "Sub-region", "Host country", "Title", "Type", "Type.1",
     "Reductions (ktCO2e/yr)", "A6 relevant period from", "A6 relevant period to",
     "A6 relevant period \n(in years)", "Transition Request",
     "Methodology after transition", "Sectoral Sope", "Approved by Host Party",
     "Approval Date"}

\* lines 214-216 (the order of the columns is not modelled)
cols_show(t) == IF cols_prefer \cap t.cols = {} THEN t.cols ELSE cols_prefer \cap t.cols

\* df_f[cols_show]
project(t, cs) ==
    Table(cs, [i \in DOMAIN t.rows |-> Row(t.rows[i].idx, [c \in cs |-> t.rows[i].c[c]])])

----------------------------------------------------------------------------
(* Bounds and the inputs the specifications draw from.                     *)

MaxRows == 2

NoSelection == [c \in FilterColSet |-> NoWidget]

NoKPIs == [total_selected |-> 0, requested_transition |-> 0, approved_yes |-> 0, reductions_sum |-> 0]

\* the values the "Top N" slider is moved to; 10 is its default
TopNChoices == {5, 10, 30}

\* the script run end to end
AppDom ==
    ("Host country" :> {Str(<<"I","D">>), Str(<<"C","L",";"," ","E","G",";"," ","M","u","l","t","i","p","l","e">>), NaN})
    @@ ("Transition Request" :> {Str(<<"Y","e","s">>), Str(<<"N","o">>)})
    @@ ("Reductions (ktCO2e/yr)" :> {Str(<<"1","2",".","5">>), Str(<<"b","a","d">>)})

AppColumns ==
    { {"Host country", "Transition Request", "Reductions (ktCO2e/yr)"},
      {"Transition Request", "Reductions (ktCO2e/yr)"} }

\* apply_filters
FilterDom ==
    ("Region" :> {Str(<<"A","s","i","a">>), Str(<<"A","f","r","i","c","a">>), NaN})
    @@ ("Type" :> {Str(<<"W","i","n","d">>), Num(7)})
    @@ ("Title" :> {Str(<<"N","a">>), Str(<<"b">>), NaN})

FilterColumns == SUBSET {"Region", "Type", "Title"}

Queries == {<< >>, <<"n","a">>, <<"B">>, <<".">>, <<"(">>, <<"[">>}

\* the KPIs
KPIDom ==
    ("Transition Request" :> {Str(<<"Y","e","s">>), Str(<<"N","o">>), NaN})
    @@ ("Approved by Host Party" :> {Str(<<"Y","E","S">>), Str(<<"y","e","s"," ">>)})
    @@ ("Reductions (ktCO2e/yr)" :> {Str(<<"1","2",".","5">>), Str(<<"b","a","d">>), Num(3), NaN})

KPIColumns == SUBSET {"Transition Request", "Approved by Host Party", "Reductions (ktCO2e/yr)"}

\* make_exploded_for_geo
GeoDom ==
    "Host country" :>
        {Str(<<"I","D">>), Str(<<"C","L",";"," ","E","G",";"," ","M","u","l","t","i","p","l","e">>), NaN, Str(<<"M","u","l","t","i","p","l","e">>), Str(<<" ","m","u","l","t","i","p","l","e"," ",";">>),
         Str(<< >>), Str(<<"A","t","l","a","n","t","i","s">>), Str(<<"n","a","n",";"," ","C","L">>), Str(<<" ","I","D","N"," ">>), Str(<<"V","i","e","t"," ","N","a","m",";"," ","I","r","a","n",";",";","A","t","l","a","n","t","i","s">>),
         Str(<<"C","L",";"," ","c","l">>), Num(360)}

GeoColumns == {{"Host country"}, {}}

\* token_to_iso3
BaseTokens ==
    {<<"m","u","l","t","i","p","l","e">>, << >>, <<"n","a","n">>, <<"I","r","a","n">>, <<"V","i","e","t"," ","N","a","m">>, <<"L","a","o"," ","P","D","R">>, <<"C","o","t","e"," ","d","'","I","v","o","i","r","e">>,
     <<"K","o","r","e","a",","," ","R","e","p","u","b","l","i","c"," ","o","f">>, <<"I","D">>, <<"X","X">>, <<"I","1">>, <<"I","D","N">>, <<"X","X","X">>, <<"I"," ","D">>, <<"I","n","d","o","n","e","s","i","a">>,
     <<"R","e","p","u","b","l","i","c"," ","o","f"," ","I","n","d","o","n","e","s","i","a">>, <<"V","i","e","t","n","a","m">>, <<"A","t","l","a","n","t","i","s">>, <<"3","6","0">>, <<"C","L">>, <<"E","G">>, <<"M","u","l","t","i","p","l","e">>}

Pads == {<< >>, <<" ">>}

TokenInputs ==
    {l \o t \o r : l \in Pads, r \in Pads,
                   t \in BaseTokens \cup {lower(b) : b \in BaseTokens} \cup {upper(b) : b \in BaseTokens}}

----------------------------------------------------------------------------
(* The script.                                                             *)

Start(table, filtered, token, at) ==
    /\ df = table
    /\ sel = NoSelection
    /\ q = << >>
    /\ df_f = filtered
    /\ kpi = NoKPIs
    /\ ex = EmptyTable
    /\ topn = 10
    /\ counts = << >>
    /\ geo_counts = << >>
    /\ shown = EmptyTable
    /\ tok = token
    /\ iso3 = None
    /\ pc = at
    /\ err = "none"

\* the script stands at statement `at` with a table of at most MaxRows rows,
\* over one of the column sets, with cells from dom
StartOn(colsets, dom, at) ==
    \E cs \in colsets, n \in 0..MaxRows :
        \E recs \in [1..n -> Records(cs, dom)] :
            Start(Sheet(cs, recs), IF at = "apply_filters" THEN EmptyTable ELSE Sheet(cs, recs), << >>, at)

\* line 142: df_f = apply_filters(df)
ApplyFilters ==
    /\ pc = "apply_filters"
    /\ \E s \in (IF multiselectRaises(df) THEN {NoSelection} ELSE Selections(df)),
          pat \in (IF multiselectRaises(df) \/ "Title" \notin df.cols THEN {<< >>} ELSE Queries) :
          LET r == apply_filters(df, s, pat)
          IN  /\ sel' = s
              /\ q' = pat
              /\ err' = r.err
              /\ df_f' = IF r.err = "none" THEN r.out ELSE df_f
              /\ pc' = IF r.err = "none" THEN "kpis" ELSE "error"
    /\ UNCHANGED <<df, kpi, ex, topn, counts, geo_counts, shown, tok, iso3>>

\* lines 145-152
ComputeKPIs ==
    /\ pc = "kpis"
    /\ kpi' = KPIs(df_f)
    /\ pc' = "make_exploded_for_geo"
    /\ UNCHANGED <<df, sel, q, df_f, ex, topn, counts, geo_counts, shown, tok, iso3, err>>

\* line 165: ex = make_exploded_for_geo(df_f)
MakeExploded ==
    /\ pc = "make_exploded_for_geo"
    /\ LET r == make_exploded_for_geo(df_f)
       IN  /\ err' = r.err
           /\ ex' = IF r.err = "none" THEN r.ex ELSE ex
           /\ df_f' = r.arg
           /\ pc' = IF r.err = "none" THEN "charts" ELSE "error"
    /\ UNCHANGED <<df, sel, q, kpi, topn, counts, geo_counts, shown, tok, iso3>>

\* lines 168-200: the bar chart's counts and the map's counts
Charts ==
    /\ pc = "charts"
    /\ \E n \in TopNChoices :
          /\ topn' = n
          /\ \E T \in head_sorted(groupby_size(ex, "country_clean"), n) :
                counts' = [v \in T |-> groupby_size(ex, "country_clean")[v]]
    /\ geo_counts' = groupby_size(ex, "iso3")
    /\ pc' = "details"
    /\ UNCHANGED <<df, sel, q, df_f, kpi, ex, shown, tok, iso3, err>>

\* lines 205-218
DetailTable ==
    /\ pc = "details"
    /\ shown' = project(df_f, cols_show(df_f))
    /\ pc' = "done"
    /\ UNCHANGED <<df, sel, q, df_f, kpi, ex, topn, counts, geo_counts, tok, iso3, err>>

\* one call of token_to_iso3
Resolve ==
    /\ pc = "token_to_iso3"
    /\ iso3' = token_to_iso3(tok)
    /\ pc' = "returned"
    /\ UNCHANGED <<df, sel, q, df_f, kpi, ex, topn, counts, geo_counts, shown, tok, err>>

Init == StartOn(AppColumns, AppDom, "apply_filters")

Next == ApplyFilters \/ ComputeKPIs \/ MakeExploded \/ Charts \/ DetailTable

Spec == Init /\ [][Next]_vars

\* apply_filters alone, on tables with categorical columns and a Title
InitFilter == StartOn(FilterColumns, FilterDom, "apply_filters")

NextFilter == ApplyFilters

SpecFilter == InitFilter /\ [][NextFilter]_vars

\* the KPIs alone, on any filtered table
InitKPI == StartOn(KPIColumns, KPIDom, "kpis")

NextKPI == ComputeKPIs

SpecKPI == InitKPI /\ [][NextKPI]_vars

\* make_exploded_for_geo alone, on any filtered table
InitGeo == StartOn(GeoColumns, GeoDom, "make_exploded_for_geo")

NextGeo == MakeExploded

SpecGeo == InitGeo /\ [][NextGeo]_vars

\* token_to_iso3 alone, on any token
InitTok == \E t \in TokenInputs : Start(EmptyTable, EmptyTable, t, "token_to_iso3")

NextTok == Resolve

SpecTok == InitTok /\ [][NextTok]_vars

----------------------------------------------------------------------------
(* The properties.                                                         *)

\* out has t's columns, and its rows are rows of t, each as it is in t, in
\* t's order and none twice
IsRowSubset(out, t) ==
    /\ out.cols = t.cols
    /\ \A i \in DOMAIN out.rows : \E j \in DOMAIN t.rows : t.rows[j] = out.rows[i]
    /\ \A i \in DOMAIN out.rows, k \in DOMAIN out.rows : i < k => out.rows[i].idx < out.rows[k].idx

\* C1: whatever the selections and the text query, the table apply_filters
\* returns holds only unmodified rows of the loaded table, none more often
\* than the loaded table does, and none synthesized.
C1_FilteredIsSubset == pc = "kpis" => IsRowSubset(df_f, df)

\* two filters were active and kept some rows but not all
C1_Witness ==
    /\ pc = "kpis"
    /\ q # << >>
    /\ \E c \in FilterColSet : truthy(sel[c])
    /\ 0 < len(df_f)
    /\ len(df_f) < len(df)

\* the filter specs that are (s, pat) plus one more active constraint
OneMore(t, s, pat) ==
    UNION { {<<[s EXCEPT ![c] = w], pat>> : w \in {x \in multiselect(t, c) : truthy(x)}}
            : c \in {x \in FilterColSet : x \in t.cols /\ ~truthy(s[x])} }
    \cup (IF pat = << >> /\ "Title" \in t.cols
          THEN {<<s, p>> : p \in Queries \ {<< >>}}
          ELSE {})

\* C3: adding one constraint to the filter spec (one more non-empty selection,
\* or a text query where there was none) gives a result that is a subset of
\* the result without it, so never more rows.
C3_Monotonic ==
    pc = "kpis" =>
        \A x \in OneMore(df, sel, q) :
            LET r == apply_filters(df, x[1], x[2])
            IN  r.err = "none" => IsRowSubset(r.out, df_f) /\ len(r.out) <= len(df_f)

\* one selection is active, a second one can be added, and it removes a row
C3_Witness ==
    /\ pc = "kpis"
    /\ \E c \in FilterColSet : truthy(sel[c])
    /\ \E x \in OneMore(df, sel, q) :
          /\ x[2] = q
          /\ apply_filters(df, x[1], x[2]).err = "none"
          /\ len(apply_filters(df, x[1], x[2]).out) < len(df_f)

AllPredicatesEmpty == q = << >> /\ \A c \in FilterColSet : ~truthy(sel[c])

\* C4: with every selection empty (or its column absent) and the text query
\* empty (or no Title column), apply_filters returns the loaded table itself:
\* the same rows, in the same order, with the same cells.
C4_Identity == (pc \in {"kpis", "error"} /\ AllPredicatesEmpty) => (err = "none" /\ df_f = df)

\* sub occurs in text
containsText(text, sub) ==
    \E off \in 0..(Len(text) - Len(sub)) : \A j \in 1..Len(sub) : text[off + j] = sub[j]

passesSelections(r, t, s) ==
    \A c \in FilterColSet : (truthy(s[c]) /\ c \in t.cols) => r.c[c] \in s[c].vals

\* C9: while a non-empty text query is active, no row whose Title is missing
\* is in the result, and a row with a Title is in the result exactly when it
\* passes the selections and its Title contains the query, case-insensitively,
\* as a substring.
C9_TextPredicate ==
    (pc = "kpis" /\ q # << >> /\ "Title" \in df.cols) =>
        \A i \in DOMAIN df.rows :
            LET r    == df.rows[i]
                kept == \E k \in DOMAIN df_f.rows : df_f.rows[k] = r
            IN  IF isna(r.c["Title"]) THEN ~kept
                ELSE kept <=> (passesSelections(r, df, sel)
                               /\ containsText(lower(pystr(r.c["Title"])), lower(q)))

\* C10: no predicate raises: once the sidebar is built, the selections and the
\* text query are applied without an exception, whatever the table, the
\* selected values and the query text, and apply_filters returns a table.
C10_NeverRaises == (pc \in {"kpis", "error"} /\ ~multiselectRaises(df)) => (err = "none" /\ pc = "kpis")

\* C8: a filtered table without a host-country column gives an empty
\* expansion (no rows, so empty counts for the bar chart and the map), not a
\* failure.
C8_MissingColumnDegrades ==
    ("Host country" \notin df_f.cols /\ pc # "make_exploded_for_geo") =>
        (err = "none" /\ pc = "charts" /\ len(ex) = 0)

\* the host countries a cell lists
listed(cell) == IF isna(cell) THEN << >> ELSE split(pystr(cell), ";")

idxs(t) == {t.rows[i].idx : i \in DOMAIN t.rows}

rowsOf(t, idx) == SelectSeq(t.rows, LAMBDA r : r.idx = idx)

RECURSIVE total(_, _)
total(g, S) == IF S = {} THEN 0 ELSE LET a == CHOOSE x \in S : TRUE IN g[a] + total(g, S \ {a})

\* C2: make_exploded_for_geo leaves the loaded table, the filtered table and
\* the KPIs as they were; and at the end of the run the KPIs and the detail
\* table are those of the filtered table, each record once, while a record
\* that lists N host countries has at most N rows in the expansion the map
\* counts.
C2_NoFeedback ==
    /\ [][pc = "make_exploded_for_geo" => (df' = df /\ df_f' = df_f /\ kpi' = kpi)]_vars
    /\ [](pc = "done" =>
            /\ kpi = KPIs(df_f)
            /\ kpi.total_selected = Cardinality(idxs(df_f))
            /\ IsRowSubset(df_f, df)
            /\ shown.cols \subseteq df_f.cols
            /\ idxs(shown) = idxs(df_f)
            /\ len(shown) = len(df_f)
            /\ \A i \in DOMAIN shown.rows : \A c \in shown.cols :
                  shown.rows[i].c[c] = df_f.rows[i].c[c]
            /\ total(geo_counts, DOMAIN geo_counts) = len(ex)
            /\ \A i \in DOMAIN df_f.rows :
                  Len(rowsOf(ex, df_f.rows[i].idx)) <= Len(listed(df_f.rows[i].c["Host country"])))

\* one record is selected out of two, and it counts for two countries on the map
C2_Witness ==
    /\ pc = "done"
    /\ len(df) = 2
    /\ kpi.total_selected = 1
    /\ len(shown) = 1
    /\ len(ex) = 2
    /\ Cardinality(DOMAIN geo_counts) = 2

ValidISO3 == {c.alpha_3 : c \in countries}

\* C5: token_to_iso3 returns None or an ISO3 code for every token, and decides
\* in a fixed order: a trimmed token that is "multiple", "" or "nan" whatever
\* its case is unresolved; else an alias gives the alias's code; else two
\* letters resolve through the ISO2 codes only, three letters only when they
\* are an ISO3 code, and anything else through the name lookup.
C5_Resolve ==
    pc = "returned" =>
        LET t == strip(tok)
        IN  /\ iso3 = None \/ iso3 \in ValidISO3
            /\ IF lower(t) \in {<<"m","u","l","t","i","p","l","e">>, << >>, <<"n","a","n">>} THEN iso3 = None
               ELSE IF inSpecial(t) THEN iso3 = special(t)
               ELSE IF Len(t) = 2 /\ isalpha(t)
                    THEN \/ \E c \in countries : c.alpha_2 = upper(t) /\ iso3 = c.alpha_3
                         \/ iso3 = None /\ \A c \in countries : c.alpha_2 # upper(t)
               ELSE IF Len(t) = 3 /\ isalpha(t)
                    THEN iso3 = IF upper(t) \in ValidISO3 THEN upper(t) ELSE None
               ELSE iso3 = lookup(t)
            /\ tok = <<"I","D">> => iso3 = <<"I","D","N">>
            /\ tok = <<"I","D","N">> => iso3 = <<"I","D","N">>
            /\ tok = <<"I","n","d","o","n","e","s","i","a">> => iso3 = <<"I","D","N">>
            /\ tok = <<"M","u","l","t","i","p","l","e">> => iso3 = None
            /\ tok = << >> => iso3 = None
            /\ tok = <<"V","i","e","t"," ","N","a","m">> => iso3 = <<"V","N","M">>

\* an alias the name lookup does not know, with a space to trim
C5_Witness == pc = "returned" /\ tok = <<" ","I","r","a","n">> /\ iso3 = <<"I","R","N">>

\* the (token, ISO3) pairs a host-country cell stands for
expectedPairs(cell) ==
    LET parts  == listed(cell)
        pieces == [i \in DOMAIN parts |-> strip(parts[i])]
        good   == SelectSeq(pieces, LAMBDA t : /\ t # << >>
                                               /\ lower(t) # <<"m","u","l","t","i","p","l","e">>
                                               /\ token_to_iso3(t) # None)
    IN  [i \in DOMAIN good |-> <<good[i], token_to_iso3(good[i])>>]

\* the (token, ISO3) pairs ex holds for the record with index idx
actualPairs(idx) ==
    LET rs == rowsOf(ex, idx)
    IN  [i \in DOMAIN rs |-> <<rs[i].c["country_clean"].s, rs[i].c["iso3"].s>>]

\* C6: the expansion holds, for every record, one row per host-country token
\* that is non-empty, is not "multiple" and resolves, and no other row: none
\* for a missing cell, none for a placeholder or an unresolvable token, with
\* or without a semicolon; "CL; EG; Multiple" gives CL -> CHL and EG -> EGY.
C6_Expansion ==
    pc = "charts" =>
        /\ idxs(ex) \subseteq idxs(df_f)
        /\ \A i \in DOMAIN df_f.rows :
              LET cell == df_f.rows[i].c["Host country"]
              IN  /\ actualPairs(df_f.rows[i].idx) = expectedPairs(cell)
                  /\ isna(cell) => rowsOf(ex, df_f.rows[i].idx) = << >>
                  /\ cell = Str(<<"C","L",";"," ","E","G",";"," ","M","u","l","t","i","p","l","e">>) =>
                        actualPairs(df_f.rows[i].idx) = << <<<<"C","L">>, <<"C","H","L">>>>, <<<<"E","G">>, <<"E","G","Y">>>> >>

\* a record listing two countries and a placeholder, and one with a missing cell
C6_Witness ==
    /\ pc = "charts"
    /\ len(df_f) = 2
    /\ df_f.rows[1].c["Host country"] = Str(<<"C","L",";"," ","E","G",";"," ","M","u","l","t","i","p","l","e">>)
    /\ isna(df_f.rows[2].c["Host country"])
    /\ len(ex) = 2

\* the texts that are "yes" whatever the case
YesTexts == {<<a, b, c>> : a \in {"y", "Y"}, b \in {"e", "E"}, c \in {"s", "S"}}

\* what a cell adds to a sum, in hundredths: a number its value, the text 12.5
\* its value, and a text that is no number, or a missing cell, nothing
addend(v) == IF v.t = "num" THEN 100 * v.n ELSE IF v = Str(<<"1","2",".","5">>) THEN 1250 ELSE 0

RECURSIVE addends(_, _)
addends(rows, col) == IF rows = << >> THEN 0 ELSE addend(Head(rows).c[col]) + addends(Tail(rows), col)

\* C7: the KPIs of any filtered table: the count is the number of rows, a
\* yes-count the number of rows whose value is the text "yes" in any case, the
\* reductions sum the sum of the values that are numbers; an absent column
\* gives zero, and so does the empty table.
C7_KPIs ==
    pc = "make_exploded_for_geo" =>
        /\ err = "none"
        /\ kpi.total_selected = len(df_f)
        /\ kpi.requested_transition =
              IF "Transition Request" \in df_f.cols
              THEN Cardinality({i \in DOMAIN df_f.rows :
                                   df_f.rows[i].c["Transition Request"].t = "str"
                                   /\ df_f.rows[i].c["Transition Request"].s \in YesTexts})
              ELSE 0
        /\ kpi.approved_yes =
              IF "Approved by Host Party" \in df_f.cols
              THEN Cardinality({i \in DOMAIN df_f.rows :
                                   df_f.rows[i].c["Approved by Host Party"].t = "str"
                                   /\ df_f.rows[i].c["Approved by Host Party"].s \in YesTexts})
              ELSE 0
        /\ kpi.reductions_sum =
              IF "Reductions (ktCO2e/yr)" \in df_f.cols
              THEN addends(df_f.rows, "Reductions (ktCO2e/yr)")
              ELSE 0
        /\ len(df_f) = 0 => kpi = NoKPIs

\* two records, one asking for transition, one with reductions that are no number
C7_Witness ==
    /\ pc = "make_exploded_for_geo"
    /\ df_f.cols = {"Transition Request", "Reductions (ktCO2e/yr)"}
    /\ len(df_f) = 2
    /\ df_f.rows[1].c = ("Transition Request" :> Str(<<"Y","e","s">>)) @@ ("Reductions (ktCO2e/yr)" :> Str(<<"1","2",".","5">>))
    /\ df_f.rows[2].c = ("Transition Request" :> Str(<<"N","o">>)) @@ ("Reductions (ktCO2e/yr)" :> Str(<<"b","a","d">>))
    /\ kpi = [total_selected |-> 2, requested_transition |-> 1, approved_yes |-> 0, reductions_sum |-> 1250]

============================================================================
